---- MODULE Spec2Model ----
(***************************************************************************)
(* A model of futures-dns (src/futures-dns/src/lib.rs):                    *)
(*   - the ToEndpoint conversions (pure functions over strings), and       *)
(*   - CpuPoolResolver::resolve, which hands a blocking lookup to a fixed   *)
(*     pool of worker threads and returns a future.                        *)
(* Strings are sequences of one-character strings, so that rfind, slicing   *)
(* and the number parsers are computed character by character.             *)
(***************************************************************************)
EXTENDS Integers, Sequences, FiniteSets, TLC

(***************************************************************************)
(* Bounds of the model.                                                    *)
(***************************************************************************)
\* longest string of the exhaustively enumerated inputs of to_endpoint
MaxLen == 4
\* number of resolve calls made on one resolver
MaxCalls == 2

\* u16::MAX, the range of the port type (io::Result<u16>, Endpoint::Host(_, u16))
U16Max == 65535

(***************************************************************************)
(* Characters and strings.                                                 *)
(***************************************************************************)
DigitSeq == <<"0", "1", "2", "3", "4", "5", "6", "7", "8", "9">>

HexSeq == <<"0", "1", "2", "3", "4", "5", "6", "7", "8", "9",
            "a", "b", "c", "d", "e", "f">>

HexUpperSeq == <<"0", "1", "2", "3", "4", "5", "6", "7", "8", "9",
                 "A", "B", "C", "D", "E", "F">>

Range(f) == {f[i] : i \in DOMAIN f}

IsDigit(c, radix) ==
    IF radix = 10 THEN c \in Range(DigitSeq)
    ELSE c \in Range(HexSeq) \cup Range(HexUpperSeq)

\* char::to_digit
DigitVal(c) ==
    IF c \in Range(HexSeq) THEN (CHOOSE i \in 1..16 : HexSeq[i] = c) - 1
    ELSE (CHOOSE i \in 1..16 : HexUpperSeq[i] = c) - 1

\* s[from..to) in Rust's half-open, 0-based byte ranges: &s[a..b]
Slice(s, a, b) == SubSeq(s, a + 1, b)

\* str::rfind(":"): the 0-based index of the last occurrence, -1 for None
rfind(s, c) ==
    LET hits == {i \in 1..Len(s) : s[i] = c}
    IN  IF hits = {} THEN -1
        ELSE (CHOOSE i \in hits : \A k \in hits : k <= i) - 1

\* str::find: the 0-based index of the first occurrence, -1 for None
find(s, c) ==
    LET hits == {i \in 1..Len(s) : s[i] = c}
    IN  IF hits = {} THEN -1
        ELSE (CHOOSE i \in hits : \A k \in hits : k >= i) - 1

RECURSIVE Split(_, _)
\* the fields of s between the occurrences of c (one field more than occurrences)
Split(s, c) ==
    LET i == find(s, c)
    IN  IF i = -1 THEN <<s>>
        ELSE <<Slice(s, 0, i)>> \o Split(Slice(s, i + 1, Len(s)), c)

(***************************************************************************)
(* Integer parsing: core::num from_str_radix for an unsigned type.          *)
(* -1 stands for Err(ParseIntError).                                       *)
(***************************************************************************)
RECURSIVE AccumulateChecked(_, _, _, _)
\* result = result.checked_mul(radix)?.checked_add(digit)? over the digits
AccumulateChecked(digits, i, acc, max) ==
    IF i > Len(digits) THEN acc
    ELSE IF ~IsDigit(digits[i], 10) THEN -1
    ELSE LET m == acc * 10
             a == m + DigitVal(digits[i])
         IN  IF m > max \/ a > max THEN -1
             ELSE AccumulateChecked(digits, i + 1, a, max)

RECURSIVE AccumulateWrapping(_, _, _, _)
AccumulateWrapping(digits, i, acc, max) ==
    IF i > Len(digits) THEN acc
    ELSE IF ~IsDigit(digits[i], 10) THEN -1
    ELSE AccumulateWrapping(digits, i + 1,
                            (acc * 10 + DigitVal(digits[i])) % (max + 1), max)

\* a parser that forgets the overflow check (wraps modulo 2^16)
u16_from_str_wrapping(src) ==
    IF src = <<>> THEN -1
    ELSE LET digits == IF src[1] = "+" THEN Tail(src) ELSE src
         IN  IF digits = <<>> THEN -1
             ELSE AccumulateWrapping(digits, 1, 0, U16Max)

\* u16::from_str: an optional "+", then at least one decimal digit, no overflow
u16_from_str(src) ==
    IF src = <<>> THEN -1
    ELSE LET digits == IF src[1] = "+" THEN Tail(src) ELSE src
         IN  IF digits = <<>> THEN -1
             ELSE AccumulateChecked(digits, 1, 0, U16Max)

(***************************************************************************)
(* IP literals: std::net::parser, as used by IpAddr::from_str (line 97)     *)
(* and by the SocketAddr literal check of str::to_socket_addrs (line 41).   *)
(* An address is [v |-> 4, parts |-> four octets] or                        *)
(* [v |-> 6, parts |-> eight 16-bit groups]; NoIp stands for a parse error. *)
(***************************************************************************)
NoIp == [v |-> 0, parts |-> <<>>]

Ipv4Addr(a, b, c, d) == [v |-> 4, parts |-> <<a, b, c, d>>]

RECURSIVE NumberValue(_, _, _)
NumberValue(digits, radix, acc) ==
    IF digits = <<>> THEN acc
    ELSE NumberValue(Tail(digits), radix, acc * radix + DigitVal(Head(digits)))

\* Parser::read_number(radix, max_digits, upto) on a whole field; -1 for None.
\* Leading zeros are read as digits, as by the std of this crate's time.
read_number(field, radix, max_digits, upto) ==
    IF field = <<>> \/ Len(field) > max_digits THEN -1
    ELSE IF \E i \in 1..Len(field) : ~IsDigit(field[i], radix) THEN -1
    ELSE LET n == NumberValue(field, radix, 0)
         IN  IF n >= upto THEN -1 ELSE n

\* the octets of read_ipv4_addr put together: None unless there are four
ipv4_of_octets(octets) ==
    IF Len(octets) # 4 \/ (\E i \in 1..Len(octets) : octets[i] = -1)
    THEN NoIp
    ELSE [v |-> 4, parts |-> octets]

read_octets(fields) ==
    [i \in 1..Len(fields) |-> read_number(fields[i], 10, 3, 256)]

\* Parser::read_ipv4_addr: four read_number(10, 3, 0x100) separated by '.'
read_ipv4_addr(s) == ipv4_of_octets(read_octets(Split(s, ".")))

NoGroups == [ok |-> FALSE, groups |-> <<>>, v4 |-> FALSE]

RECURSIVE Flatten(_)
Flatten(ss) == IF ss = <<>> THEN <<>> ELSE Head(ss) \o Flatten(Tail(ss))

\* an IPv4 literal in the place of the last groups counts for two groups
groups_of_ipv4(v4, field) ==
    IF v4 # NoIp
    THEN <<v4.parts[1] * 256 + v4.parts[2], v4.parts[3] * 256 + v4.parts[4]>>
    ELSE <<read_number(field, 16, 4, 65536)>>

\* the i-th group of read_groups: an IPv4 literal is tried first, and only
\* while i < limit - 1; otherwise read_number(16, 4, 0x10000)
read_group(fields, i, limit) ==
    IF i = Len(fields) /\ i - 1 < limit - 1
    THEN groups_of_ipv4(read_ipv4_addr(fields[i]), fields[i])
    ELSE <<read_number(fields[i], 16, 4, 65536)>>

\* whether read_groups ended on an IPv4 literal (its second result)
ends_in_ipv4(fields, limit) ==
    /\ Len(fields) - 1 < limit - 1
    /\ read_ipv4_addr(fields[Len(fields)]) # NoIp

groups_result(all, v4, limit) ==
    IF (\E i \in 1..Len(all) : all[i] = -1) \/ Len(all) > limit
    THEN NoGroups
    ELSE [ok |-> TRUE, groups |-> all, v4 |-> v4]

groups_of_fields(fields, limit) ==
    groups_result(Flatten([i \in 1..Len(fields) |-> read_group(fields, i, limit)]),
                  ends_in_ipv4(fields, limit), limit)

\* read_groups(p, groups, limit) on a whole run of ':'-separated groups
read_groups(t, limit) ==
    IF t = <<>> THEN [ok |-> TRUE, groups |-> <<>>, v4 |-> FALSE]
    ELSE groups_of_fields(Split(t, ":"), limit)

\* the 0-based index of the first "::" of s, -1 when there is none
FindDoubleColon(s) ==
    LET hits == {i \in 1..(Len(s) - 1) : s[i] = ":" /\ s[i + 1] = ":"}
    IN  IF hits = {} THEN -1
        ELSE (CHOOSE i \in hits : \A k \in hits : k >= i) - 1

\* ipv6_addr_from_head_tail: zero groups fill the place of the "::"
ipv6_addr_from_head_tail(head, tail) ==
    IF ~tail.ok THEN NoIp
    ELSE [v |-> 6,
          parts |-> head \o [i \in 1..(8 - Len(head) - Len(tail.groups)) |-> 0]
                    \o tail.groups]

\* after the head: eight groups are an address with nothing left to read, an
\* IPv4 part is not allowed before "::", the tail has at most 8 - head_size
ipv6_after_head(head, rest) ==
    IF ~head.ok \/ Len(head.groups) = 8 \/ head.v4 THEN NoIp
    ELSE ipv6_addr_from_head_tail(head.groups,
                                  read_groups(rest, 8 - Len(head.groups)))

ipv6_of_eight(g) ==
    IF g.ok /\ Len(g.groups) = 8 THEN [v |-> 6, parts |-> g.groups] ELSE NoIp

ipv6_split_at(s, dc) ==
    IF dc = -1 THEN ipv6_of_eight(read_groups(s, 8))
    ELSE ipv6_after_head(read_groups(Slice(s, 0, dc), 8),
                         Slice(s, dc + 2, Len(s)))

\* Parser::read_ipv6_addr: eight groups, or a head and a tail around one "::"
read_ipv6_addr(s) == ipv6_split_at(s, FindDoubleColon(s))

ipv4_or_ipv6(v4, s) == IF v4 # NoIp THEN v4 ELSE read_ipv6_addr(s)

\* IpAddr::from_str: read_ipv4_addr, or else read_ipv6_addr, on the whole text
IpAddr_from_str(s) == ipv4_or_ipv6(read_ipv4_addr(s), s)

SocketAddr_new(ip, port) == [ip |-> ip, port |-> port]

NoAddr == SocketAddr_new(NoIp, 0)

(***************************************************************************)
(* Endpoint and the ToEndpoint conversions.  A value of                     *)
(* io::Result<Endpoint> is a record: tag "Host" (name, port), tag           *)
(* "SocketAddr" (ip, port) or tag "Err" (err, the io::Error's message).     *)
(***************************************************************************)
Host(name, port) ==
    [tag |-> "Host", name |-> name, ip |-> NoIp, port |-> port, err |-> ""]

EndpointSocketAddr(addr) ==
    [tag |-> "SocketAddr", name |-> <<>>, ip |-> addr.ip, port |-> addr.port,
     err |-> ""]

IoError(msg) ==
    [tag |-> "Err", name |-> <<>>, ip |-> NoIp, port |-> 0, err |-> msg]

\* impl ToEndpoint for SocketAddr
to_endpoint_SocketAddr(addr) == EndpointSocketAddr(addr)

\* impl ToEndpoint for &SocketAddr
to_endpoint_ref_SocketAddr(addr) == EndpointSocketAddr(addr)

\* impl ToEndpoint for (IpAddr, u16)
to_endpoint_IpAddr_u16(ip, port) == EndpointSocketAddr(SocketAddr_new(ip, port))

\* the tuple conversion without the IP-literal check
to_endpoint_str_u16_nocheck(host, port) == Host(host, port)

\* impl ToEndpoint for (&str, u16)
to_endpoint_str_u16(host, port) ==
    LET addr == IpAddr_from_str(host)
    IN  IF addr # NoIp THEN to_endpoint_IpAddr_u16(addr, port)
        ELSE Host(host, port)

\* fn parse_port: -1 stands for Err("invalid port")
parse_port(port) == u16_from_str(port)

\* a slice of the host that stops one character early
str_before_short(self, idx) == Slice(self, 0, idx - 1)

\* &self[..idx]
str_before(self, idx) == Slice(self, 0, idx)

\* &self[idx+1..]
str_after(self, idx) == Slice(self, idx + 1, Len(self))

\* the string conversion splitting at the first colon instead of the last
to_endpoint_str_find(self) ==
    LET idx == find(self, ":")
    IN  IF idx # -1
        THEN LET host == str_before(self, idx)
                 port == parse_port(str_after(self, idx))
             IN  IF port = -1 THEN IoError("invalid port")
                 ELSE to_endpoint_str_u16(host, port)
        ELSE IoError("invalid endpoint")

\* the string conversion reporting every failure as "invalid endpoint"
to_endpoint_str_one_error(self) ==
    LET idx == rfind(self, ":")
    IN  IF idx # -1
        THEN LET host == str_before(self, idx)
                 port == parse_port(str_after(self, idx))
             IN  IF port = -1 THEN IoError("invalid endpoint")
                 ELSE to_endpoint_str_u16(host, port)
        ELSE IoError("invalid endpoint")

\* impl ToEndpoint for &str
to_endpoint_str(self) ==
    LET idx == rfind(self, ":")
    IN  IF idx # -1
        THEN LET host == str_before(self, idx)
                 port == parse_port(str_after(self, idx))
             IN  IF port = -1 THEN IoError("invalid port")
                 ELSE to_endpoint_str_u16(host, port)
        ELSE IoError("invalid endpoint")

(***************************************************************************)
(* The inputs of the conversions: every string over Alphabet up to MaxLen,  *)
(* and the texts "<host>:<port>" and "<host>" built from formatted IPv4      *)
(* addresses, host names and port texts.                                    *)
(***************************************************************************)
Alphabet == {"h", "a", "1", ":", ".", "+"}

RECURSIVE StringsUpTo(_)
StringsUpTo(n) ==
    IF n = 0 THEN {<<>>}
    ELSE LET shorter == StringsUpTo(n - 1)
         IN  shorter \cup {Append(t, c) : t \in shorter, c \in Alphabet}

RECURSIVE ToDec(_)
\* the decimal text of a natural number (what Display prints)
ToDec(n) ==
    IF n < 10 THEN <<DigitSeq[n + 1]>>
    ELSE ToDec(n \div 10) \o <<DigitSeq[(n % 10) + 1]>>

\* the dotted text of an IPv4 address
FmtIpv4(ip) ==
    ToDec(ip.parts[1]) \o <<".">> \o ToDec(ip.parts[2]) \o <<".">>
    \o ToDec(ip.parts[3]) \o <<".">> \o ToDec(ip.parts[4])

OctetVals == {0, 10, 255}

Ipv4Samples == {Ipv4Addr(a, b, c, d) : a \in OctetVals, b \in OctetVals,
                                       c \in {0}, d \in OctetVals \cup {1}}

PortVals == {0, 80, 1227, 65535}

Localhost == <<"l", "o", "c", "a", "l", "h", "o", "s", "t">>

HostNames ==
    { <<>>, Localhost, <<"h">>,
      <<"2", "5", "6", ".", "0", ".", "0", ".", "1">>,
      <<"1", ".", "2", ".", "3">>,
      <<":", ":", "1">>,
      <<"h", ".", "a">> }

HostTexts == {FmtIpv4(ip) : ip \in Ipv4Samples} \cup HostNames

BadPortTexts ==
    { <<>>, <<"a", "b", "c">>, <<"9", "9", "9", "9", "9">>,
      <<"6", "5", "5", "3", "6">>, <<"-", "1">>, <<"8", "0", " ">>,
      <<"+">> }

PortTexts ==
    {ToDec(p) : p \in PortVals} \cup BadPortTexts
    \cup { <<"+", "8", "0">>, <<"0", "0", "0", "0", "0", "8", "0">> }

StrInputs ==
    StringsUpTo(MaxLen) \cup HostTexts
    \cup {h \o <<":">> \o p : h \in HostTexts, p \in PortTexts}

ParseInputs ==
    {[kind |-> "str", s |-> s, addr |-> NoAddr] : s \in StrInputs}
    \cup {[kind |-> "str_u16", s |-> h, addr |-> SocketAddr_new(NoIp, p)] :
            h \in HostTexts \cup StringsUpTo(MaxLen - 1), p \in PortVals}
    \cup {[kind |-> k, s |-> <<>>, addr |-> SocketAddr_new(ip, p)] :
            k \in {"IpAddr_u16", "SocketAddr", "ref_SocketAddr"},
            ip \in Ipv4Samples \cup {read_ipv6_addr(<<":", ":", "1">>)},
            p \in PortVals}

(***************************************************************************)
(* The resolver.  std's str::to_socket_addrs and the platform lookup behind *)
(* it are opaque to the crate; they are modelled by what they may return.   *)
(***************************************************************************)
\* io::Result<vec::IntoIter<SocketAddr>> and io::Result<Vec<IpAddr>>
IoOk(items) == [tag |-> "Ok", items |-> items, err |-> ""]

IoErr(e) == [tag |-> "Err", items |-> <<>>, err |-> e]

\* a worker's panic payload, caught by the pool: Err(Box<Any + Send>)
Panicked == [tag |-> "Panic", items |-> <<>>, err |-> ""]

\* nothing there yet (an empty channel, an undelivered result, no return)
Nothing == [tag |-> "Nothing", items |-> <<>>, err |-> ""]

socket_addr_of(ip, port) ==
    IF ip = NoIp \/ port = -1 THEN NoAddr ELSE SocketAddr_new(ip, port)

ipv4_or_bracketed_ipv6(v4, host) ==
    IF v4 # NoIp THEN v4
    ELSE IF Len(host) >= 2 /\ host[1] = "[" /\ host[Len(host)] = "]"
    THEN read_ipv6_addr(Slice(host, 1, Len(host) - 1))
    ELSE NoIp

socket_addr_split_at(s, idx) ==
    IF idx = -1 THEN NoAddr
    ELSE socket_addr_of(
             ipv4_or_bracketed_ipv6(read_ipv4_addr(Slice(s, 0, idx)),
                                    Slice(s, 0, idx)),
             read_number(Slice(s, idx + 1, Len(s)), 10, 5, 65536))

\* SocketAddr::from_str: "<IPv4>:<port>" or "[<IPv6>]:<port>"; NoAddr for Err
SocketAddr_from_str(s) == socket_addr_split_at(s, rfind(s, ":"))

AddrA == Ipv4Addr(192, 0, 2, 7)

AddrB == read_ipv6_addr(<<":", ":", "1">>)

\* what the platform's lookup_host may answer for a name: some addresses, in
\* some order, possibly repeated, or an error
LookupAnswers ==
    { IoOk(<<AddrA, AddrB>>), IoOk(<<AddrB, AddrA>>), IoOk(<<AddrB, AddrB>>),
      IoErr("failed to lookup address information"),
      IoErr("network unreachable") }

\* resolve_socket_addr: every answer of the lookup of the host gets the port
resolve_socket_addr(port) ==
    IF port = -1 THEN {IoErr("invalid port value")}
    ELSE {IF a.tag = "Ok"
          THEN IoOk([i \in DOMAIN a.items |-> SocketAddr_new(a.items[i], port)])
          ELSE a : a \in LookupAnswers}

socket_addrs_of(lit, s, idx) ==
    IF lit # NoAddr THEN {IoOk(<<lit>>)}
    ELSE IF idx = -1 THEN {IoErr("invalid socket address")}
    ELSE resolve_socket_addr(u16_from_str(Slice(s, idx + 1, Len(s))))

\* <str as ToSocketAddrs>::to_socket_addrs: the set of its possible returns.
\* A socket-address literal is returned as it is; otherwise the text is split
\* at its last ':' into host and port and the host is looked up.
to_socket_addrs(s) == socket_addrs_of(SocketAddr_from_str(s), s, rfind(s, ":"))

\* format!("{}:0", host)
format_host(host) == host \o <<":", "0">>

\* a closure that reports every lookup error as the same, new error
lookup_closure_reclassify(ret) ==
    IF ret.tag = "Ok"
    THEN IoOk([i \in DOMAIN ret.items |-> ret.items[i].ip])
    ELSE IoErr("resolution failed")

\* a closure that collects the addresses in reverse
lookup_closure_reversed(ret) ==
    IF ret.tag = "Ok"
    THEN IoOk([i \in DOMAIN ret.items |->
                  ret.items[Len(ret.items) + 1 - i].ip])
    ELSE IoErr(ret.err)

\* the closure run on the pool, applied to what to_socket_addrs returned:
\* Ok(it) => Ok(it.map(|s| s.ip()).collect()), Err(e) => Err(e)
lookup_closure(ret) ==
    IF ret.tag = "Ok"
    THEN IoOk([i \in DOMAIN ret.items |-> ret.items[i].ip])
    ELSE IoErr(ret.err)

\* a continuation that turns the worker's panic into an ordinary error
then_swallow(res) ==
    IF res.tag = "Panic"
    THEN [state |-> "done", value |-> IoErr("worker panicked")]
    ELSE [state |-> "done", value |-> res]

\* .then(|res| res.unwrap()): the inner io::Result, or a panic of the thread
\* that drives the future when the worker panicked
then_unwrap(res) ==
    IF res.tag = "Panic"
    THEN [state |-> "panicked", value |-> Nothing]
    ELSE [state |-> "done", value |-> res]

\* a pool that spawns one thread too many
PoolThreads_one_more(num_threads) == 1..(num_threads + 1)

\* CpuPool::new(num_threads): the pool's worker threads
PoolThreads(num_threads) == 1..num_threads

\* the job a worker runs: the closure with the formatted host it captured
Job(id, host) == [id |-> id, host |-> host]

NoJob == Job(0, <<>>)

\* a pool that loses the jobs queued behind the one it hands out
queue_rest_lost(q) == <<>>

\* the pool's queue after a worker has taken its first job
queue_rest(q) == Tail(q)

\* the worker sends the closure's result (or its panic) to the job's own future
send(ch, id, res) == [ch EXCEPT ![id] = res]

ResolveHosts ==
    { <<"1", "0", ".", "0", ".", "0", ".", "1">>, <<"h">> }

\* to_socket_addrs on the texts resolve can pass to it, tabulated
SocketAddrsOf ==
    [s \in {format_host(h) : h \in ResolveHosts} |-> to_socket_addrs(s)]

MaxThreads == MaxCalls - 1

Calls == 1..MaxCalls

VARIABLES
    input,        \* the value to_endpoint is called on
    result,       \* what to_endpoint returned (Nothing before the call)
    numThreads,   \* CpuPoolResolver::new(num_threads)
    calls,        \* the host of every resolve call made so far, in call order
    queue,        \* the pool's queue of jobs not yet taken by a worker
    workers,      \* per pool thread, the job whose lookup it is performing
    chan,         \* per call, what the worker sent to its future
    fut,          \* per call, the returned future: none, pending, done, panicked
    delivered,    \* per call, the value its future completed with
    deliveries,   \* per call, how many times its future completed
    lookups,      \* per call, how many times to_socket_addrs was invoked
    platformRet   \* per call, what to_socket_addrs returned

vars == <<input, result, numThreads, calls, queue, workers, chan, fut,
          delivered, deliveries, lookups, platformRet>>

parseVars == <<input, result>>

resolverVars == <<numThreads, calls, queue, workers, chan, fut, delivered,
                  deliveries, lookups, platformRet>>

NoInput == [kind |-> "none", s |-> <<>>, addr |-> NoAddr]

NoResult == [tag |-> "Nothing", name |-> <<>>, ip |-> NoIp, port |-> 0,
             err |-> ""]

\* a resolver just constructed: no call made, every pool thread idle
ResolverInit(n) ==
    /\ numThreads = n
    /\ calls = <<>>
    /\ queue = <<>>
    /\ workers = [w \in 1..MaxCalls |-> NoJob]
    /\ chan = [j \in Calls |-> Nothing]
    /\ fut = [j \in Calls |-> "none"]
    /\ delivered = [j \in Calls |-> Nothing]
    /\ deliveries = [j \in Calls |-> 0]
    /\ lookups = [j \in Calls |-> 0]
    /\ platformRet = [j \in Calls |-> Nothing]

\* CpuPoolResolver::new(num_threads) with num_threads >= 1 (CpuPool::new
\* rejects 0), and fewer threads than the calls that will be made
Init ==
    /\ input = NoInput
    /\ result = NoResult
    /\ \E n \in 1..MaxThreads : ResolverInit(n)

\* CpuPoolResolver::resolve(host): format the host, hand the closure to the
\* pool, return the future; the calling thread performs no lookup
Resolve(host) ==
    /\ Len(calls) < MaxCalls
    /\ LET id == Len(calls) + 1
       IN  /\ calls' = Append(calls, host)
           /\ queue' = Append(queue, Job(id, format_host(host)))
           /\ fut' = [fut EXCEPT ![id] = "pending"]
    /\ UNCHANGED <<parseVars, numThreads, workers, chan, delivered,
                   deliveries, lookups, platformRet>>

\* an idle pool thread takes the first queued job and enters its closure
WorkerTake(w) ==
    /\ w \in PoolThreads(numThreads)
    /\ w \in DOMAIN workers
    /\ workers[w] = NoJob
    /\ queue # <<>>
    /\ workers' = [workers EXCEPT ![w] = Head(queue)]
    /\ queue' = queue_rest(queue)
    /\ UNCHANGED <<parseVars, numThreads, calls, chan, fut, delivered,
                   deliveries, lookups, platformRet>>

\* the blocking to_socket_addrs of the job returns; the closure maps its
\* return and the pool sends the result to the job's future
WorkerLookup(w) ==
    /\ w \in DOMAIN workers
    /\ workers[w] # NoJob
    /\ LET job == workers[w]
       IN  \E ret \in SocketAddrsOf[job.host] :
               /\ chan' = send(chan, job.id, lookup_closure(ret))
               /\ platformRet' = [platformRet EXCEPT ![job.id] = ret]
               /\ lookups' = [lookups EXCEPT ![job.id] = @ + 1]
    /\ workers' = [workers EXCEPT ![w] = NoJob]
    /\ UNCHANGED <<parseVars, numThreads, calls, queue, fut, delivered,
                   deliveries>>

\* the closure panics instead of returning; the pool catches the panic and
\* sends it to the job's future
WorkerPanic(w) ==
    /\ w \in DOMAIN workers
    /\ workers[w] # NoJob
    /\ LET job == workers[w]
       IN  /\ chan' = send(chan, job.id, Panicked)
           /\ lookups' = [lookups EXCEPT ![job.id] = @ + 1]
    /\ workers' = [workers EXCEPT ![w] = NoJob]
    /\ UNCHANGED <<parseVars, numThreads, calls, queue, fut, delivered,
                   deliveries, platformRet>>

\* the returned future is driven once the worker has sent: the continuation
\* unwraps what was sent
Drive(j) ==
    /\ fut[j] = "pending"
    /\ chan[j] # Nothing
    /\ LET r == then_unwrap(chan[j])
       IN  /\ fut' = [fut EXCEPT ![j] = r.state]
           /\ delivered' = [delivered EXCEPT ![j] = r.value]
           /\ deliveries' = [deliveries EXCEPT
                               ![j] = IF r.state = "done" THEN @ + 1 ELSE @]
    /\ UNCHANGED <<parseVars, numThreads, calls, queue, workers, chan,
                   lookups, platformRet>>

Next ==
    \/ \E host \in ResolveHosts : Resolve(host)
    \/ \E w \in 1..MaxCalls : WorkerTake(w)
    \/ \E w \in 1..MaxCalls : WorkerLookup(w)
    \/ \E w \in 1..MaxCalls : WorkerPanic(w)
    \/ \E j \in Calls : Drive(j)

Spec == Init /\ [][Next]_vars

\* the pool's threads are scheduled fairly, every lookup returns (or panics),
\* and every returned future is driven
Fairness ==
    /\ \A w \in 1..MaxThreads :
           WF_vars(WorkerTake(w) \/ WorkerLookup(w) \/ WorkerPanic(w))
    /\ \A j \in Calls : WF_vars(Drive(j))

FairSpec == Spec /\ Fairness

(***************************************************************************)
(* The conversions as a state machine: one call of to_endpoint on one       *)
(* input.  The resolver is constructed and never called.                   *)
(***************************************************************************)
ParseInit ==
    /\ input \in ParseInputs
    /\ result = NoResult
    /\ ResolverInit(1)

ToEndpointStr ==
    /\ result = NoResult
    /\ input.kind = "str"
    /\ result' = to_endpoint_str(input.s)
    /\ UNCHANGED <<input, resolverVars>>

ToEndpointStrU16 ==
    /\ result = NoResult
    /\ input.kind = "str_u16"
    /\ result' = to_endpoint_str_u16(input.s, input.addr.port)
    /\ UNCHANGED <<input, resolverVars>>

ToEndpointIpAddrU16 ==
    /\ result = NoResult
    /\ input.kind = "IpAddr_u16"
    /\ result' = to_endpoint_IpAddr_u16(input.addr.ip, input.addr.port)
    /\ UNCHANGED <<input, resolverVars>>

ToEndpointSocketAddr ==
    /\ result = NoResult
    /\ input.kind = "SocketAddr"
    /\ result' = to_endpoint_SocketAddr(input.addr)
    /\ UNCHANGED <<input, resolverVars>>

ToEndpointRefSocketAddr ==
    /\ result = NoResult
    /\ input.kind = "ref_SocketAddr"
    /\ result' = to_endpoint_ref_SocketAddr(input.addr)
    /\ UNCHANGED <<input, resolverVars>>

ParseNext ==
    \/ ToEndpointStr
    \/ ToEndpointStrU16
    \/ ToEndpointIpAddrU16
    \/ ToEndpointSocketAddr
    \/ ToEndpointRefSocketAddr

ParseSpec == ParseInit /\ [][ParseNext]_vars


(***************************************************************************)
(* Vocabulary of the properties, stated without the operators above.        *)
(***************************************************************************)
HasColon(s) == \E i \in 1..Len(s) : s[i] = ":"

LastColon(s) ==
    CHOOSE i \in 1..Len(s) : s[i] = ":" /\ \A k \in (i + 1)..Len(s) : s[k] # ":"

TextBefore(s) == SubSeq(s, 1, LastColon(s) - 1)

TextAfter(s) == SubSeq(s, LastColon(s) + 1, Len(s))

RECURSIVE DecimalValue(_)
\* the number a run of decimal digits denotes, read from its last digit
DecimalValue(d) ==
    IF d = <<>> THEN 0
    ELSE DecimalValue(SubSeq(d, 1, Len(d) - 1)) * 10
         + ((CHOOSE i \in 1..10 : DigitSeq[i] = d[Len(d)]) - 1)

Unsigned(t) == IF t # <<>> /\ t[1] = "+" THEN Tail(t) ELSE t

\* a text u16 accepts: an optional '+', decimal digits, a value in range
IsU16Text(t) ==
    /\ Unsigned(t) # <<>>
    /\ \A i \in 1..Len(Unsigned(t)) : Unsigned(t)[i] \in Range(DigitSeq)
    /\ DecimalValue(Unsigned(t)) <= U16Max

U16Value(t) == DecimalValue(Unsigned(t))

OctetTexts == {ToDec(v) : v \in 0..255}

\* a dotted IPv4 literal: four decimal numbers 0..255 between three dots
IsIpv4Text(t) ==
    /\ Len(Split(t, ".")) = 4
    /\ \A i \in 1..4 : Split(t, ".")[i] \in OctetTexts

Ipv4Value(t) ==
    [v |-> 4,
     parts |-> [i \in 1..4 |-> CHOOSE n \in 0..255 : ToDec(n) = Split(t, ".")[i]]]

Done == result # NoResult

\* the host text of an input of the two conversions that may yield Host
HostTextOf(in) == IF in.kind = "str" THEN TextBefore(in.s) ELSE in.s

InProgress == {w \in DOMAIN workers : workers[w] # NoJob}

Settled(j) == fut[j] \in {"done", "panicked"}

\* the io::Result a call's own lookup stands for: its addresses' IP parts in
\* the platform's order, or its error
OwnOutcome(j) ==
    IF platformRet[j].tag = "Ok"
    THEN IoOk([i \in 1..Len(platformRet[j].items) |-> platformRet[j].items[i].ip])
    ELSE IoErr(platformRet[j].err)

C1_ExactlyOnceOwn ==
    \A j \in Calls :
        /\ deliveries[j] <= 1
        /\ fut[j] = "done" =>
               /\ deliveries[j] = 1
               /\ platformRet[j] # Nothing
               /\ delivered[j] = OwnOutcome(j)
        /\ fut[j] # "done" => deliveries[j] = 0 /\ delivered[j] = Nothing
        /\ fut[j] = "panicked" => chan[j] = Panicked /\ platformRet[j] = Nothing

C1_StaysSettled ==
    \A j \in Calls :
        Settled(j) => fut'[j] = fut[j] /\ delivered'[j] = delivered[j]

(***************************************************************************)
(* C1: under fair scheduling every returned future is eventually settled    *)
(* (it completes, or surfaces its own worker's panic), also when more calls *)
(* are made than the pool has threads; a future completes at most once,     *)
(* with the outcome of its own call's lookup, and stays as it completed.    *)
(***************************************************************************)
C1_AllComplete ==
    /\ \A j \in Calls : (fut[j] = "pending") ~> Settled(j)
    /\ []C1_ExactlyOnceOwn
    /\ [][C1_StaysSettled]_vars

\* more calls than threads, all completed, two of them with different outcomes
C1_Witness ==
    /\ Len(calls) = MaxCalls
    /\ numThreads < Len(calls)
    /\ \A j \in Calls : fut[j] = "done"
    /\ delivered[1] # delivered[2]

(***************************************************************************)
(* C2: when the lookup of a call returns an I/O error, the future completes *)
(* with exactly that error, and the lookup was invoked exactly once.        *)
(***************************************************************************)
C2_ErrorUnchanged ==
    \A j \in Calls :
        /\ lookups[j] <= 1
        /\ platformRet[j].tag = "Err" =>
               /\ lookups[j] = 1
               /\ chan[j] = IoErr(platformRet[j].err)
               /\ fut[j] \in {"pending", "done"}
               /\ fut[j] = "done" => delivered[j] = IoErr(platformRet[j].err)

C2_Witness ==
    \E j \in Calls :
        /\ fut[j] = "done"
        /\ platformRet[j] = IoErr("network unreachable")
        /\ delivered[j] = IoErr("network unreachable")

(***************************************************************************)
(* C3: when the lookup succeeds, the future completes with the IP parts of  *)
(* the returned socket addresses, same order and length, and no port in     *)
(* it; an IPv4-literal host completes with the one-element list of that IP. *)
(***************************************************************************)
C3_IpsInOrder ==
    \A j \in Calls :
        fut[j] = "done" /\ platformRet[j].tag = "Ok" =>
            /\ delivered[j].tag = "Ok"
            /\ Len(delivered[j].items) = Len(platformRet[j].items)
            /\ \A i \in 1..Len(delivered[j].items) :
                   /\ delivered[j].items[i] = platformRet[j].items[i].ip
                   /\ DOMAIN delivered[j].items[i] = {"v", "parts"}
            /\ IsIpv4Text(calls[j]) =>
                   delivered[j].items = <<Ipv4Value(calls[j])>>

\* a name resolved to two addresses and a literal resolved to itself
C3_Witness ==
    \E j, k \in Calls :
        /\ fut[j] = "done" /\ fut[k] = "done"
        /\ delivered[j] = IoOk(<<AddrB, AddrA>>)
        /\ IsIpv4Text(calls[k])
        /\ delivered[k] = IoOk(<<Ipv4Addr(10, 0, 0, 1)>>)

C4_NoOrdinaryOutcome ==
    \A j \in Calls :
        /\ chan[j] = Panicked =>
               /\ fut[j] \in {"pending", "panicked"}
               /\ delivered[j] = Nothing
               /\ deliveries[j] = 0
        /\ fut[j] = "panicked" => chan[j] = Panicked

C4_DrivenPanics ==
    \A j \in Calls :
        chan[j] = Panicked /\ fut'[j] # fut[j] => fut'[j] = "panicked"

(***************************************************************************)
(* C4: when the worker running a call's job panics, the call's future never *)
(* completes with Ok or Err; driving it panics.                             *)
(***************************************************************************)
C4_WorkerFaultIsFatal == []C4_NoOrdinaryOutcome /\ [][C4_DrivenPanics]_vars

C4_Witness ==
    \E j \in Calls : fut[j] = "panicked" /\ chan[j] = Panicked

C5_Bounded ==
    /\ Cardinality(InProgress) <= numThreads
    /\ InProgress \subseteq 1..numThreads

C5_OffCaller ==
    /\ Len(calls') = Len(calls) + 1 =>
           /\ fut'[Len(calls')] = "pending"
           /\ lookups' = lookups /\ platformRet' = platformRet /\ chan' = chan
    /\ \A j \in Calls :
           lookups'[j] # lookups[j] =>
               \E w \in 1..numThreads : workers[w].id = j /\ workers'[w] = NoJob

(***************************************************************************)
(* C5: resolve returns a pending future without the lookup having been      *)
(* performed; a lookup is performed only by one of the pool's num_threads   *)
(* threads, and never more than num_threads lookups are in progress.        *)
(***************************************************************************)
C5_NonBlocking == []C5_Bounded /\ [][C5_OffCaller]_vars

\* every thread is in a lookup, the first call's among them, and the caller
\* has gone on to submit every further call
C5_Witness ==
    /\ Len(calls) = MaxCalls
    /\ Cardinality(InProgress) = numThreads
    /\ \E w \in InProgress : workers[w].id = 1
    /\ queue # <<>>
    /\ \A j \in Calls : fut[j] = "pending" /\ lookups[j] = 0

(***************************************************************************)
(* C6 as stated: the name of a Host is never the empty string.              *)
(***************************************************************************)
C6_NameNeverEmpty == Done /\ result.tag = "Host" => result.name # <<>>

(***************************************************************************)
(* C6 as amended: the name of a Host is the host text of the input (the     *)
(* tuple's string, the text before the last colon), so it is empty exactly  *)
(* when that text is empty.                                                 *)
(***************************************************************************)
C6_NameIsHostText ==
    Done /\ result.tag = "Host" =>
        /\ input.kind \in {"str", "str_u16"}
        /\ result.name = HostTextOf(input)
        /\ result.name = <<>> <=> HostTextOf(input) = <<>>

C6_Witness ==
    /\ input.kind = "str"
    /\ input.s = <<":", "8", "0">>
    /\ result = Host(<<>>, 80)

(***************************************************************************)
(* C7: a string without a colon fails with "invalid endpoint", and only     *)
(* such a string does.                                                      *)
(***************************************************************************)
C7_InvalidEndpoint ==
    Done =>
        /\ input.kind = "str" /\ ~HasColon(input.s) =>
               result = IoError("invalid endpoint")
        /\ result.err = "invalid endpoint" =>
               input.kind = "str" /\ ~HasColon(input.s) /\ result.tag = "Err"

C7_Witness ==
    /\ input.kind = "str"
    /\ input.s = Localhost
    /\ result = IoError("invalid endpoint")

(***************************************************************************)
(* C8: a string whose text after the last colon is not a valid u16 fails    *)
(* with "invalid port", whatever precedes the colon.                        *)
(***************************************************************************)
C8_InvalidPort ==
    Done /\ input.kind = "str" /\ HasColon(input.s)
         /\ ~IsU16Text(TextAfter(input.s)) =>
        result = IoError("invalid port")

\* an out-of-range port after a valid IP literal
C8_Witness ==
    /\ input.kind = "str"
    /\ HasColon(input.s)
    /\ IsIpv4Text(TextBefore(input.s))
    /\ TextAfter(input.s) = <<"6", "5", "5", "3", "6">>
    /\ result = IoError("invalid port")

(***************************************************************************)
(* C9: "<IPv4 literal>:<valid port>" yields SocketAddr with that IP and     *)
(* that port, never Host.                                                   *)
(***************************************************************************)
C9_Ipv4Literal ==
    Done /\ input.kind = "str" /\ HasColon(input.s)
         /\ IsIpv4Text(TextBefore(input.s)) /\ IsU16Text(TextAfter(input.s)) =>
        /\ result.tag = "SocketAddr"
        /\ result.ip = Ipv4Value(TextBefore(input.s))
        /\ result.port = U16Value(TextAfter(input.s))

\* the case of test_endpoint_str_port, with another address
C9_Witness ==
    /\ input.kind = "str"
    /\ input.s = FmtIpv4(Ipv4Addr(10, 0, 0, 255)) \o <<":">> \o ToDec(1227)
    /\ result.tag = "SocketAddr"
    /\ result.ip = Ipv4Addr(10, 0, 0, 255)
    /\ result.port = 1227

(***************************************************************************)
(* C10: "<host>:<valid port>" whose host is no IP literal yields            *)
(* Host(host, port), both exactly as split at the last colon, the same as   *)
(* the tuple conversion of the two parts, and no lookup is made.            *)
(***************************************************************************)
C10_HostAsSplit ==
    Done /\ input.kind = "str" /\ HasColon(input.s)
         /\ IsU16Text(TextAfter(input.s))
         /\ IpAddr_from_str(TextBefore(input.s)) = NoIp =>
        /\ result.tag = "Host"
        /\ result.name = TextBefore(input.s)
        /\ result.port = U16Value(TextAfter(input.s))
        /\ result = to_endpoint_str_u16(TextBefore(input.s),
                                        U16Value(TextAfter(input.s)))
        /\ \A j \in Calls : lookups[j] = 0

\* the case of test_endpoint_str
C10_Witness ==
    /\ input.kind = "str"
    /\ input.s = Localhost \o <<":">> \o ToDec(1227)
    /\ result = Host(Localhost, 1227)

====
